---- MODULE Spec2Model ----
(***************************************************************************)
(* Model of the two notebooks of the repository:                           *)
(*   - the LSTM input notebook: data = array(...); data = data.reshape(..) *)
(*   - the linear algebra cheat sheet: one NumPy call per cell.            *)
(* The state is the notebook kernel: the names bound by the cells and the  *)
(* array storage they refer to.  A NumPy array is a header (shape and      *)
(* strides) over a storage buffer; several headers may share one buffer.   *)
(* Element values are exact rationals <<n, d>>; d = 0 encodes the          *)
(* non-finite results of a division by zero (inf, -inf, nan).              *)
(***************************************************************************)
EXTENDS Integers, Sequences, FiniteSets, TLC

\* ---------------------------------------------------------------- bounds
MaxN == 4        \* longest bounded source sequence given to reshape
MaxElem == 1     \* a reshape source starts at one of 0..MaxElem and counts up
MaxFull == 4     \* catalog operands up to this size take every element combination
MaxRows == 2     \* most rows of a catalog matrix operand
MaxCols == 2     \* most columns of a catalog operand (longest vector)
MaxVal == 1      \* catalog operand elements are 0..MaxVal
MaxStat == 3     \* longest vector given to the statistics cells
MaxStatVal == 2  \* statistics vector elements are 0..MaxStatVal
MaxWrites == 1   \* element assignments made in one run

\* ------------------------------------------------------- shapes, strides
RECURSIVE Prod(_)
Prod(shape) == IF shape = <<>> THEN 1 ELSE Head(shape) * Prod(Tail(shape))

\* row-major (C order) strides, in elements, of a freshly laid out array
CStrides(shape) ==
    [k \in 1..Len(shape) |-> Prod(SubSeq(shape, k + 1, Len(shape)))]

NewArray(buf, shape) ==
    [kind |-> "array", buf |-> buf, shape |-> shape, strides |-> CStrides(shape)]

Scalar(x) == [kind |-> "scalar", val |-> x]

NoValue == [kind |-> "none"]

NoError == "none"
ValueError == "ValueError"
LinAlgNot2D == "LinAlgError: array must be at least two-dimensional"
LinAlgNotSquare == "LinAlgError: last 2 dimensions of the array must be square"
LinAlgSingular == "LinAlgError: Singular matrix"

\* the k-th (0-based) index tuple of a shape in row-major order
Unravel(shape, k) ==
    [j \in 1..Len(shape) |-> (k \div CStrides(shape)[j]) % shape[j]]

RECURSIVE Dot1(_, _)
Dot1(x, y) == IF x = <<>> THEN 0 ELSE Head(x) * Head(y) + Dot1(Tail(x), Tail(y))

\* position (0-based) in the buffer of the element at index tuple idx
Offset(arr, idx) == Dot1(idx, arr.strides)

At(m, arr, idx) == m[arr.buf][1 + Offset(arr, idx)]

\* the elements of an array read in row-major order
Flat(m, arr) ==
    [k \in 1..Prod(arr.shape) |-> At(m, arr, Unravel(arr.shape, k - 1))]

IsContiguous(arr) == arr.strides = CStrides(arr.shape)

\* -------------------------------------------------------------- rationals
Abs(x) == IF x < 0 THEN -x ELSE x
Sign(x) == IF x < 0 THEN -1 ELSE IF x = 0 THEN 0 ELSE 1

RECURSIVE GCD(_, _)
GCD(x, y) == IF y = 0 THEN x ELSE GCD(y, x % y)

\* n/d in lowest terms with d >= 0; n/0 is inf, -inf or nan by the sign of n
Norm(n, d) ==
    IF d = 0 THEN <<Sign(n), 0>>
    ELSE LET g == GCD(Abs(n), Abs(d))
         IN <<(Sign(d) * n) \div g, Abs(d) \div g>>

Rat(n) == <<n, 1>>
NaN == <<0, 0>>

RNeg(x) == <<-x[1], x[2]>>
RAdd(x, y) ==
    IF x[2] = 0 /\ y[2] = 0 THEN (IF x = y THEN x ELSE NaN)
    ELSE IF x[2] = 0 THEN x
    ELSE IF y[2] = 0 THEN y
    ELSE Norm(x[1] * y[2] + y[1] * x[2], x[2] * y[2])
RSub(x, y) == RAdd(x, RNeg(y))
RMul(x, y) == Norm(x[1] * y[1], x[2] * y[2])
RDiv(x, y) ==
    IF x[2] = 0 /\ y[2] = 0 THEN NaN
    ELSE IF x[2] = 0 THEN (IF y[1] = 0 THEN x ELSE <<x[1] * Sign(y[1]), 0>>)
    ELSE Norm(x[1] * y[2], x[2] * y[1])

\* the comparison of two floating-point elements: nan equals nothing
REq(x, y) == x # NaN /\ x = y

RECURSIVE RSum(_)
RSum(xs) == IF xs = <<>> THEN Rat(0) ELSE RAdd(Head(xs), RSum(Tail(xs)))

\* ----------------------------------------------------------- broadcasting
Max(x, y) == IF x > y THEN x ELSE y

\* a shape padded on the left with 1s to n dimensions
Pad(shape, n) ==
    [k \in 1..n |-> IF k <= n - Len(shape) THEN 1 ELSE shape[k - (n - Len(shape))]]

\* NumPy's rule: aligned from the last dimension, two extents are compatible
\* when they are equal or one of them is 1
BroadcastableIdentical(sa, sb) == sa = sb

Broadcastable(sa, sb) ==
    LET n == Max(Len(sa), Len(sb))
    IN \A k \in 1..n : \/ Pad(sa, n)[k] = Pad(sb, n)[k]
                       \/ Pad(sa, n)[k] = 1
                       \/ Pad(sb, n)[k] = 1

BroadcastShape(sa, sb) ==
    LET n == Max(Len(sa), Len(sb))
    IN [k \in 1..n |-> Max(Pad(sa, n)[k], Pad(sb, n)[k])]

\* the index into an operand of shape 'shape' for result index idx
BIndex(shape, idx) ==
    [j \in 1..Len(shape) |->
        IF shape[j] = 1 THEN 0 ELSE idx[j + (Len(idx) - Len(shape))]]

\* the operator a cell applies to a pair of elements (float arrays: / is
\* true division, and a zero divisor gives inf or nan, not an exception)
Apply(name, x, y) ==
    IF name = "add" THEN RAdd(x, y)
    ELSE IF name = "subtract" THEN RSub(x, y)
    ELSE IF name = "multiply" THEN RMul(x, y)
    ELSE RDiv(x, y)

\* the elements, in row-major order, of an elementwise binary operation
Elementwise(name, m, x, y) ==
    LET rs == BroadcastShape(x.shape, y.shape)
    IN [k \in 1..Prod(rs) |->
          Apply(name, At(m, x, BIndex(x.shape, Unravel(rs, k - 1))),
                      At(m, y, BIndex(y.shape, Unravel(rs, k - 1))))]

\* ---------------------------------------------------------------- dot
\* ndarray.dot: sum of products over the last axis of x and the
\* second-to-last axis of y (the only axis of a vector y)
InnerX(x) == x.shape[Len(x.shape)]
InnerY(y) == IF Len(y.shape) = 1 THEN y.shape[1] ELSE y.shape[Len(y.shape) - 1]

DotAlignedShorter(x, y) == InnerX(x) <= InnerY(y)

DotAligned(x, y) == InnerX(x) = InnerY(y)

DotShape(x, y) ==
    SubSeq(x.shape, 1, Len(x.shape) - 1)
        \o (IF Len(y.shape) = 1 THEN <<>> ELSE <<y.shape[2]>>)

\* row-major elements of x.dot(y); a single element when both are vectors
DotElems(m, x, y) ==
    LET rs == DotShape(x, y)
        xi(idx, k) == IF Len(x.shape) = 1 THEN <<k>> ELSE <<idx[1], k>>
        yi(idx, k) == IF Len(y.shape) = 1 THEN <<k>> ELSE <<k, idx[Len(idx)]>>
    IN [e \in 1..Prod(rs) |->
          RSum([k \in 1..InnerX(x) |->
                  RMul(At(m, x, xi(Unravel(rs, e - 1), k - 1)),
                       At(m, y, yi(Unravel(rs, e - 1), k - 1)))])]

\* ------------------------------------------------------------------ state
VARIABLES
    mem,     \* storage: buffer name -> flat sequence of elements
    data,    \* LSTM notebook: the name 'data'
    A, B,    \* cheat sheet operands (a, b in the vector cells)
    C,       \* cheat sheet result (c, C, I, result)
    v,       \* cheat sheet statistics input
    err,     \* exception raised by the last cell, or NoError
    op,      \* the last cell run
    arg,     \* the argument the last cell was run with
    src,     \* the array object 'data' was bound to before it was rebound
    writes,  \* number of element assignments made so far
    M,       \* cheat sheet: the matrix given to tril, triu and diag
    lower, upper,     \* cheat sheet: the triangular parts of M
    d,                \* cheat sheet: the diagonal of M
    values, vectors   \* cheat sheet: the two arrays eig returns

vars == <<mem, data, A, B, C, v, err, op, arg, src, writes,
          M, lower, upper, d, values, vectors>>

\* ---------------------------------------------------------------- reshape
\* ndarray.reshape: the total size must be kept; a contiguous array is
\* reinterpreted in place (view), any other is copied in row-major order.
ReshapeFitsTruncating(arr, shape) == Prod(shape) <= Prod(arr.shape)

ReshapeFits(arr, shape) == Prod(shape) = Prod(arr.shape)

ReshapeResultColumnMajor(arr, shape, fresh) ==
    [kind |-> "array", buf |-> arr.buf, shape |-> shape,
     strides |-> [k \in 1..Len(shape) |-> Prod(SubSeq(shape, 1, k - 1))]]

ReshapeResultSwapped(arr, shape, fresh) ==
    [kind |-> "array", buf |-> arr.buf,
     shape |-> <<shape[1], shape[3], shape[2]>>,
     strides |-> CStrides(<<shape[1], shape[3], shape[2]>>)]

ReshapeResult(arr, shape, fresh) ==
    IF IsContiguous(arr)
    THEN [kind |-> "array", buf |-> arr.buf, shape |-> shape,
          strides |-> CStrides(shape)]
    ELSE NewArray(fresh, shape)

Buffers == {"data", "R", "A", "B", "C", "M", "lower", "upper", "d", "values", "vectors"}

\* the names of the triangle and diagonal cells, and of the eig cell
Extraction == <<M, lower, upper, d>>
Factorization == <<values, vectors>>

\* a session that has not run those cells
NoExtraction == M = NoValue /\ lower = NoValue /\ upper = NoValue /\ d = NoValue
NoFactorization == values = NoValue /\ vectors = NoValue

Tenths == [k \in 1..10 |-> k]
Series2 == [k \in 1..20 |-> IF k % 2 = 1 THEN (k + 1) \div 2 ELSE 11 - k \div 2]

RECURSIVE SeqsUpTo(_, _)
SeqsUpTo(S, n) ==
    IF n = 0 THEN {<<>>}
    ELSE LET P == SeqsUpTo(S, n - 1)
         IN P \cup {Append(s, x) : s \in {p \in P : Len(p) = n - 1}, x \in S}

SourceShapes(n) ==
    {<<n>>} \cup {sh \in {<<r, c>> : r \in 1..n, c \in 1..n} : Prod(sh) = n}

Targets ==
    {<<s, t, f>> : s \in 1..MaxN, t \in 1..MaxN, f \in 1..MaxN}
        \cup {<<1, 10, 1>>, <<1, 10, 2>>}

Default == NewArray("A", <<1>>)

InitReshape ==
    /\ \E els \in {[k \in 1..n |-> b0 + k - 1] : n \in 1..MaxN, b0 \in 0..MaxElem}
                     \cup {Tenths, Series2} :
         \E sh \in SourceShapes(Len(els)) :
           /\ mem = [b \in Buffers |->
                        IF b = "data" THEN els ELSE <<0>>]
           /\ data = NewArray("data", sh)
    /\ A = Default
    /\ B = Default
    /\ C = NoValue
    /\ v = <<>>
    /\ err = NoError
    /\ op = "array"
    /\ arg = <<>>
    /\ src = data
    /\ writes = 0
    /\ NoExtraction
    /\ NoFactorization

\* data = data.reshape((samples, timesteps, features))
ReshapeTo(targets) ==
    \E shape \in targets :
      /\ data.kind = "array"
      /\ op' = "reshape"
      /\ arg' = shape
      /\ IF ReshapeFits(data, shape)
         THEN /\ data' = ReshapeResult(data, shape, "R")
              /\ mem' = IF IsContiguous(data) THEN mem
                        ELSE [mem EXCEPT !["R"] = Flat(mem, data)]
              /\ err' = NoError
         ELSE /\ err' = ValueError
              /\ UNCHANGED <<data, mem>>
      /\ UNCHANGED <<A, B, C, v, src, writes, Extraction, Factorization>>

Reshape == ReshapeTo(Targets)

NextReshape == Reshape

SpecReshape == InitReshape /\ [][NextReshape]_vars

\* ------------------------------------------------------------ cheat sheet
Reverse(s) == [k \in 1..Len(s) |-> s[Len(s) + 1 - k]]

\* the rows of a 2-D array as a sequence of sequences
Rows(m, X) ==
    [i \in 1..X.shape[1] |-> [j \in 1..X.shape[2] |-> At(m, X, <<i - 1, j - 1>>)]]

RemoveAt(s, i) == SubSeq(s, 1, i - 1) \o SubSeq(s, i + 1, Len(s))

RECURSIVE RProd(_)
RProd(xs) == IF xs = <<>> THEN Rat(1) ELSE RMul(Head(xs), RProd(Tail(xs)))

Perms(n) == {p \in [1..n -> 1..n] : \A i, j \in 1..n : p[i] = p[j] => i = j}

Parity(p) ==
    IF Cardinality({ij \in (DOMAIN p) \X (DOMAIN p) :
                       ij[1] < ij[2] /\ p[ij[1]] > p[ij[2]]}) % 2 = 0
    THEN 1 ELSE -1

\* the signed product of the entries a permutation selects
Term(mat, rows, cols, p) ==
    RMul(Rat(Parity(p)), RProd([t \in 1..Len(rows) |-> mat[rows[t]][cols[p[t]]]]))

RECURSIVE SumTerms(_, _, _, _)
SumTerms(mat, rows, cols, P) ==
    IF P = {} THEN Rat(0)
    ELSE LET p == CHOOSE f \in P : TRUE
         IN RAdd(Term(mat, rows, cols, p), SumTerms(mat, rows, cols, P \ {p}))

\* determinant of the submatrix of mat on the given rows and columns, in exact
\* arithmetic (LAPACK's LU factorization computes the same number up to
\* rounding)
DetOn(mat, rows, cols) == SumTerms(mat, rows, cols, Perms(Len(rows)))

Indices(n) == [k \in 1..n |-> k]

Minor(mat, i, j) == DetOn(mat, RemoveAt(Indices(Len(mat)), i), RemoveAt(Indices(Len(mat)), j))

DetM(mat) == DetOn(mat, Indices(Len(mat)), Indices(Len(mat)))

IsSquare(X) == Len(X.shape) = 2 /\ X.shape[1] = X.shape[2]

\* row-major elements of the inverse of an invertible square matrix
InvElems(mat) ==
    LET n == Len(mat)
        dt == DetM(mat)
    IN [e \in 1..(n * n) |->
          LET i == ((e - 1) \div n) + 1
              j == ((e - 1) % n) + 1
          IN RDiv(RMul(Rat(IF (i + j) % 2 = 0 THEN 1 ELSE -1),
                       Minor(mat, j, i)), dt)]

IdentityElemsOnes(n) == [e \in 1..(n * n) |-> Rat(1)]

IdentityElems(n) ==
    [e \in 1..(n * n) |-> IF (e - 1) \div n = (e - 1) % n THEN Rat(1) ELSE Rat(0)]

OperandShapes ==
    {<<n>> : n \in 1..MaxCols} \cup {<<r, c>> : r \in 1..MaxRows, c \in 1..MaxCols}

Ramp(n, b0) == [k \in 1..n |-> Rat(b0 + k - 1)]

\* the element sequences an operand of a shape is given: every combination
\* of 0..MaxVal for the small shapes, counting sequences for the larger ones
Contents(shape) ==
    IF Prod(shape) <= MaxFull
    THEN {[k \in 1..Prod(shape) |-> Rat(e[k])] : e \in [1..Prod(shape) -> 0..MaxVal]}
    ELSE {Ramp(Prod(shape), b0) : b0 \in 0..MaxVal}

InitCatalog ==
    /\ \/ \E sa \in OperandShapes, sb \in OperandShapes :
            \E ea \in Contents(sa) :
              /\ mem = [b \in Buffers |->
                          IF b = "A" THEN ea
                          ELSE IF b = "B" THEN Ramp(Prod(sb), 0)
                          ELSE <<0>>]
              /\ A = NewArray("A", sa)
              /\ B = NewArray("B", sb)
       \/ /\ mem = [b \in Buffers |->
                      IF b = "A" THEN <<Rat(1), Rat(2), Rat(3)>>
                      ELSE IF b = "B" THEN <<Rat(4), Rat(5), Rat(6)>>
                      ELSE <<0>>]
          /\ A = NewArray("A", <<3>>)
          /\ B = NewArray("B", <<3>>)
       \/ /\ mem = [b \in Buffers |->
                      IF b = "A" THEN [k \in 1..9 |-> Rat(((k - 1) % 3) + 1)]
                      ELSE IF b = "B" THEN Ramp(9, 1)
                      ELSE <<0>>]
          /\ A = NewArray("A", <<3, 3>>)
          /\ B = NewArray("B", <<3, 3>>)
       \/ /\ mem = [b \in Buffers |->
                      IF b = "A" THEN Ramp(4, 1)
                      ELSE IF b = "B" THEN Ramp(4, 5)
                      ELSE <<0>>]
          /\ A = NewArray("A", <<2, 2>>)
          /\ B = NewArray("B", <<2, 2>>)
    /\ C = NoValue
    /\ data = NewArray("data", <<1>>)
    /\ src = data
    /\ v = <<>>
    /\ err = NoError
    /\ op = "array"
    /\ arg = <<>>
    /\ writes = 0
    /\ NoExtraction
    /\ NoFactorization

Frame == UNCHANGED <<data, v, src, writes, Extraction, Factorization>>

\* C = A + B, C = A - B, C = A * B, C = A / B  (c = a + b, ... for vectors)
Binary(name) ==
    /\ A.kind = "array"
    /\ B.kind = "array"
    /\ op' = name
    /\ arg' = <<>>
    /\ IF Broadcastable(A.shape, B.shape)
       THEN /\ C' = NewArray("C", BroadcastShape(A.shape, B.shape))
            /\ mem' = [mem EXCEPT !["C"] = Elementwise(name, mem, A, B)]
            /\ err' = NoError
       ELSE /\ err' = ValueError
            /\ UNCHANGED <<C, mem>>
    /\ UNCHANGED <<A, B>>
    /\ Frame

Add == Binary("add")
Subtract == Binary("subtract")
Multiply == Binary("multiply")
Divide == Binary("divide")

\* C = A.dot(B), C = A.dot(b), c = a.dot(b)
Dot ==
    /\ A.kind = "array"
    /\ B.kind = "array"
    /\ op' = "dot"
    /\ arg' = <<>>
    /\ IF DotAligned(A, B)
       THEN /\ IF DotShape(A, B) = <<>>
               THEN /\ C' = Scalar(DotElems(mem, A, B)[1])
                    /\ mem' = mem
               ELSE /\ C' = NewArray("C", DotShape(A, B))
                    /\ mem' = [mem EXCEPT !["C"] = DotElems(mem, A, B)]
            /\ err' = NoError
       ELSE /\ err' = ValueError
            /\ UNCHANGED <<C, mem>>
    /\ UNCHANGED <<A, B>>
    /\ Frame

\* c = a * 2.2, C = A.dot(2.2)
ScalarFactor == <<11, 5>>

ScalarMultiplyInPlace ==
    /\ A.kind = "array"
    /\ op' = "scalar"
    /\ arg' = ScalarFactor
    /\ C' = A
    /\ mem' = [mem EXCEPT ![A.buf] =
                  [k \in 1..Len(mem[A.buf]) |-> RMul(mem[A.buf][k], ScalarFactor)]]
    /\ err' = NoError
    /\ UNCHANGED <<A, B>>
    /\ Frame

ScalarMultiply ==
    /\ A.kind = "array"
    /\ op' = "scalar"
    /\ arg' = ScalarFactor
    /\ C' = NewArray("C", A.shape)
    /\ mem' = [mem EXCEPT !["C"] =
                  [k \in 1..Prod(A.shape) |-> RMul(Flat(mem, A)[k], ScalarFactor)]]
    /\ err' = NoError
    /\ UNCHANGED <<A, B>>
    /\ Frame

\* B = A.T : the same storage with the axes (shape and strides) reversed
TransposeOfShapeOnly(X) ==
    [kind |-> "array", buf |-> X.buf, shape |-> Reverse(X.shape),
     strides |-> CStrides(Reverse(X.shape))]

TransposeOf(X) ==
    [kind |-> "array", buf |-> X.buf, shape |-> Reverse(X.shape),
     strides |-> Reverse(X.strides)]

Transpose ==
    /\ A.kind = "array"
    /\ op' = "transpose"
    /\ arg' = <<>>
    /\ B' = TransposeOf(A)
    /\ err' = NoError
    /\ UNCHANGED <<A, C, mem>>
    /\ Frame

\* I = identity(3)
IdentitySizes == (1..MaxCols) \cup {3}

Identity ==
    \E n \in IdentitySizes :
      /\ op' = "identity"
      /\ arg' = n
      /\ B' = NewArray("B", <<n, n>>)
      /\ mem' = [mem EXCEPT !["B"] = IdentityElems(n)]
      /\ err' = NoError
      /\ UNCHANGED <<A, C>>
      /\ Frame

\* B = inv(A)
InvErrorUnchecked(m, X) ==
    IF Len(X.shape) < 2 THEN LinAlgNot2D
    ELSE IF ~IsSquare(X) THEN LinAlgNotSquare
    ELSE NoError

InvError(m, X) ==
    IF Len(X.shape) < 2 THEN LinAlgNot2D
    ELSE IF ~IsSquare(X) THEN LinAlgNotSquare
    ELSE IF DetM(Rows(m, X)) = Rat(0) THEN LinAlgSingular
    ELSE NoError

Inv ==
    /\ A.kind = "array"
    /\ op' = "inv"
    /\ arg' = <<>>
    /\ err' = InvError(mem, A)
    /\ IF InvError(mem, A) = NoError
       THEN /\ B' = NewArray("B", A.shape)
            /\ mem' = [mem EXCEPT !["B"] = InvElems(Rows(mem, A))]
       ELSE UNCHANGED <<B, mem>>
    /\ UNCHANGED <<A, C>>
    /\ Frame

NextCatalog ==
    \/ Add
    \/ Subtract
    \/ Multiply
    \/ Divide
    \/ Dot
    \/ ScalarMultiply
    \/ Transpose
    \/ Identity
    \/ Inv

SpecCatalog == InitCatalog /\ [][NextCatalog]_vars

\* ------------------------------------------------------------- statistics
Ddof == 1

Mean(xs) == RDiv(RSum(xs), Rat(Len(xs)))

SumSqDev(xs) ==
    RSum([k \in 1..Len(xs) |->
            RMul(RSub(xs[k], Mean(xs)), RSub(xs[k], Mean(xs)))])

VariancePopulation(xs, ddof) == RDiv(SumSqDev(xs), Rat(Len(xs)))

\* var(v, ddof): the squared deviations from the mean, summed and divided by
\* N - ddof
Variance(xs, ddof) == RDiv(SumSqDev(xs), Rat(Len(xs) - ddof))

\* the square root of a rational, kept exact as its radicand
Root(x) == [kind |-> "sqrt", of |-> x]

\* std(v, ddof): the square root of var(v, ddof)
StdDev(xs, ddof) == Root(Variance(xs, ddof))

InitStats ==
    /\ v \in {[k \in 1..Len(s) |-> Rat(s[k])] :
                s \in (SeqsUpTo(0..MaxStatVal, MaxStat) \ {<<>>}) \cup {<<1, 2, 3, 4>>}}
    /\ mem = [b \in Buffers |-> <<0>>]
    /\ A = Default
    /\ B = Default
    /\ C = NoValue
    /\ data = NewArray("data", <<1>>)
    /\ src = data
    /\ err = NoError
    /\ op = "array"
    /\ arg = <<>>
    /\ writes = 0
    /\ NoExtraction
    /\ NoFactorization

StatCell(name, value) ==
    /\ op' = name
    /\ arg' = <<>>
    /\ C' = value
    /\ err' = NoError
    /\ UNCHANGED <<mem, data, A, B, v, src, writes, Extraction, Factorization>>

\* result = mean(v)
MeanCell == StatCell("mean", Scalar(Mean(v)))

\* result = var(v, ddof=1)
VarCell == StatCell("var", Scalar(Variance(v, Ddof)))

\* result = std(v, ddof=1)
StdCell == StatCell("std", StdDev(v, Ddof))

NextStats ==
    \/ MeanCell
    \/ VarCell
    \/ StdCell

SpecStats == InitStats /\ [][NextStats]_vars

\* ------------------------------------------------------ element assignment
\* X[idx] = value on one of the bound arrays: the store goes to the buffer
\* the array's header refers to
Written == Rat(-1)

Bound(name) ==
    IF name = "A" THEN A ELSE IF name = "B" THEN B
    ELSE IF name = "C" THEN C ELSE data

IndexSet(shape) == {Unravel(shape, k - 1) : k \in 1..Prod(shape)}

\* the stores tried: every element of the first row (first sample)
StoreIndices(shape) == {idx \in IndexSet(shape) : idx[1] = 0}

SetItem ==
    /\ writes < MaxWrites
    /\ \E name \in {"A", "B", "C", "data"} :
         /\ Bound(name).kind = "array"
         /\ \E idx \in StoreIndices(Bound(name).shape) :
              /\ mem' = [mem EXCEPT
                           ![Bound(name).buf][1 + Offset(Bound(name), idx)] = Written]
              /\ arg' = <<name, idx>>
    /\ op' = "setitem"
    /\ err' = NoError
    /\ writes' = writes + 1
    /\ UNCHANGED <<data, A, B, C, v, src, Extraction, Factorization>>

ViewTargets == {<<1, MaxCols, 1>>, <<MaxCols, 1, 1>>}

ReshapeView == ReshapeTo(ViewTargets)

\* either the cheat sheet's operands are bound, or the LSTM notebook's data
InitViews ==
    /\ \/ /\ mem = [b \in Buffers |->
                      IF b = "A" THEN Ramp(MaxRows * MaxCols, 0)
                      ELSE IF b = "B" THEN Ramp(MaxRows * MaxCols, 1)
                      ELSE <<0>>]
          /\ A = NewArray("A", <<MaxRows, MaxCols>>)
          /\ B = NewArray("B", <<MaxRows, MaxCols>>)
          /\ data = NoValue
       \/ /\ mem = [b \in Buffers |->
                      IF b = "data" THEN Ramp(MaxCols, 0) ELSE <<0>>]
          /\ A = NoValue
          /\ B = NoValue
          /\ data = NewArray("data", <<MaxCols>>)
    /\ C = NoValue
    /\ src = data
    /\ v = <<>>
    /\ err = NoError
    /\ op = "array"
    /\ arg = <<>>
    /\ writes = 0
    /\ NoExtraction
    /\ NoFactorization

NextViews ==
    \/ Add
    \/ Dot
    \/ ScalarMultiply
    \/ Transpose
    \/ Identity
    \/ Inv
    \/ ReshapeView
    \/ SetItem

SpecViews == InitViews /\ [][NextViews]_vars

\* ------------------------------------------------ trace, determinant, eig
Min(x, y) == IF x < y THEN x ELSE y

\* ndarray.diagonal of a 2-D array: a view of the same storage that steps one
\* row and one column at a time and is as long as the shorter side
DiagonalOfFirstRow(X) ==
    [kind |-> "array", buf |-> X.buf,
     shape |-> <<Min(X.shape[1], X.shape[2])>>,
     strides |-> <<X.strides[2]>>]

DiagonalOf(X) ==
    [kind |-> "array", buf |-> X.buf,
     shape |-> <<Min(X.shape[1], X.shape[2])>>,
     strides |-> <<X.strides[1] + X.strides[2]>>]

\* B = trace(A): the sum along the diagonal of a 2-D array; an array of fewer
\* dimensions has no diagonal
Trace ==
    /\ A.kind = "array"
    /\ op' = "trace"
    /\ arg' = <<>>
    /\ IF Len(A.shape) < 2
       THEN /\ err' = ValueError
            /\ UNCHANGED B
       ELSE /\ err' = NoError
            /\ B' = Scalar(RSum(Flat(mem, DiagonalOf(A))))
    /\ UNCHANGED <<A, C, mem>>
    /\ Frame

\* numpy.linalg's argument checks for det and eig: at least two dimensions,
\* and the last two equal
SquareErrorTallOnly(X) ==
    IF Len(X.shape) < 2 THEN LinAlgNot2D
    ELSE IF X.shape[1] > X.shape[2] THEN LinAlgNotSquare
    ELSE NoError

SquareError(X) ==
    IF Len(X.shape) < 2 THEN LinAlgNot2D
    ELSE IF X.shape[1] # X.shape[2] THEN LinAlgNotSquare
    ELSE NoError

\* B = det(A)
Det ==
    /\ A.kind = "array"
    /\ op' = "det"
    /\ arg' = <<>>
    /\ err' = SquareError(A)
    /\ IF SquareError(A) = NoError
       THEN B' = Scalar(DetM(Rows(mem, A)))
       ELSE UNCHANGED B
    /\ UNCHANGED <<A, C, mem>>
    /\ Frame

\* the strictly increasing index sequences of length k over 1..n
SortedSubsets(n, k) ==
    {s \in [1..k -> 1..n] : \A i \in 1..(k - 1) : s[i] < s[i + 1]}

RECURSIVE SumMinors(_, _)
SumMinors(mat, S) ==
    IF S = {} THEN Rat(0)
    ELSE LET s == CHOOSE x \in S : TRUE
         IN RAdd(DetOn(mat, s, s), SumMinors(mat, S \ {s}))

\* the coefficients of the characteristic polynomial det(x I - mat), from
\* x^n down to x^0: (-1)^k times the sum of the principal minors of order k
CharPoly(mat) ==
    [k \in 1..(Len(mat) + 1) |->
        RMul(Rat(IF (k - 1) % 2 = 0 THEN 1 ELSE -1),
             SumMinors(mat, SortedSubsets(Len(mat), k - 1)))]

\* eig(X) of an n x n matrix: the tuple (w, v) of the n eigenvalues (the
\* roots of the characteristic polynomial, each as often as its multiplicity)
\* and of the n x n matrix whose column k is a unit eigenvector of w[k].
\* The roots are irrational or complex in general and are kept symbolic.
EigResult(m, X) ==
    LET n == X.shape[1]
    IN <<[k \in 1..n |->
            [kind |-> "root", of |-> CharPoly(Rows(m, X)), k |-> k]],
         [e \in 1..(n * n) |->
            [kind |-> "eigenvector", of |-> Flat(m, X),
             k |-> ((e - 1) % n) + 1, row |-> ((e - 1) \div n) + 1]]>>

\* values, vectors = eig(A): the assignment unpacks a tuple of exactly two
Eig ==
    /\ A.kind = "array"
    /\ op' = "eig"
    /\ arg' = <<>>
    /\ IF SquareError(A) # NoError
       THEN /\ err' = SquareError(A)
            /\ UNCHANGED <<values, vectors, mem>>
       ELSE IF Len(EigResult(mem, A)) # 2
       THEN /\ err' = ValueError
            /\ UNCHANGED <<values, vectors, mem>>
       ELSE /\ err' = NoError
            /\ values' = NewArray("values", <<A.shape[1]>>)
            /\ vectors' = NewArray("vectors", A.shape)
            /\ mem' = [mem EXCEPT !["values"] = EigResult(mem, A)[1],
                                  !["vectors"] = EigResult(mem, A)[2]]
    /\ UNCHANGED <<data, A, B, C, v, src, writes, Extraction>>

\* the 2 x 3 matrix [[1, 2, 3], [4, 5, 6]]
Wide == NewArray("A", <<2, 3>>)

InitFactor ==
    /\ \/ \E sa \in OperandShapes :
            \E ea \in Contents(sa) :
              /\ mem = [b \in Buffers |-> IF b = "A" THEN ea ELSE <<>>]
              /\ A = NewArray("A", sa)
       \/ /\ mem = [b \in Buffers |->
                      IF b = "A" THEN [k \in 1..9 |-> Rat(((k - 1) % 3) + 1)]
                      ELSE <<>>]
          /\ A = NewArray("A", <<3, 3>>)
       \/ /\ mem = [b \in Buffers |-> IF b = "A" THEN Ramp(6, 1) ELSE <<>>]
          /\ A = Wide
    /\ B = NoValue
    /\ C = NoValue
    /\ data = NewArray("data", <<1>>)
    /\ src = data
    /\ v = <<>>
    /\ err = NoError
    /\ op = "array"
    /\ arg = <<>>
    /\ writes = 0
    /\ NoExtraction
    /\ NoFactorization

NextFactor ==
    \/ Trace
    \/ Det
    \/ Eig

SpecFactor == InitFactor /\ [][NextFactor]_vars

\* --------------------------------------------------- triangle, diagonal
\* tril(M) and triu(M) are where(mask, M, 0) with the mask tri(*M.shape[-2:]):
\* the result has M's shape; a vector is broadcast along the rows of an
\* n x n mask
TriShape(X) == IF Len(X.shape) = 1 THEN <<X.shape[1], X.shape[1]>> ELSE X.shape

TrilElemsStrict(m, X) ==
    [e \in 1..Prod(TriShape(X)) |->
        IF Unravel(TriShape(X), e - 1)[2] < Unravel(TriShape(X), e - 1)[1]
        THEN At(m, X, BIndex(X.shape, Unravel(TriShape(X), e - 1)))
        ELSE Rat(0)]

\* row-major elements of tril(X): kept on and below the diagonal
TrilElems(m, X) ==
    [e \in 1..Prod(TriShape(X)) |->
        IF Unravel(TriShape(X), e - 1)[2] <= Unravel(TriShape(X), e - 1)[1]
        THEN At(m, X, BIndex(X.shape, Unravel(TriShape(X), e - 1)))
        ELSE Rat(0)]

\* row-major elements of triu(X): kept on and above the diagonal
TriuElems(m, X) ==
    [e \in 1..Prod(TriShape(X)) |->
        IF Unravel(TriShape(X), e - 1)[2] >= Unravel(TriShape(X), e - 1)[1]
        THEN At(m, X, BIndex(X.shape, Unravel(TriShape(X), e - 1)))
        ELSE Rat(0)]

\* lower = tril(M); upper = triu(M)
Triangle ==
    /\ M.kind = "array"
    /\ op' = "triangle"
    /\ arg' = <<>>
    /\ lower' = NewArray("lower", TriShape(M))
    /\ upper' = NewArray("upper", TriShape(M))
    /\ mem' = [mem EXCEPT !["lower"] = TrilElems(mem, M),
                          !["upper"] = TriuElems(mem, M)]
    /\ err' = NoError
    /\ UNCHANGED <<data, A, B, C, v, src, writes, M, d, Factorization>>

\* diag of a vector: the square matrix with the vector on its diagonal
DiagMatrixElems(m, X) ==
    [e \in 1..(X.shape[1] * X.shape[1]) |->
        IF (e - 1) \div X.shape[1] = (e - 1) % X.shape[1]
        THEN At(m, X, <<(e - 1) % X.shape[1]>>)
        ELSE Rat(0)]

\* d = diag(M): the diagonal of a 2-D array (ndarray.diagonal, a view of M's
\* storage since NumPy 1.9), or the diagonal matrix built from a vector
Diag ==
    /\ M.kind = "array"
    /\ op' = "diag"
    /\ arg' = <<>>
    /\ IF Len(M.shape) = 1
       THEN /\ d' = NewArray("d", <<M.shape[1], M.shape[1]>>)
            /\ mem' = [mem EXCEPT !["d"] = DiagMatrixElems(mem, M)]
       ELSE /\ d' = DiagonalOf(M)
            /\ mem' = mem
    /\ err' = NoError
    /\ UNCHANGED <<data, A, B, C, v, src, writes, M, lower, upper, Factorization>>

InitExtract ==
    /\ \/ \E sm \in OperandShapes :
            \E em \in Contents(sm) :
              /\ mem = [b \in Buffers |-> IF b = "M" THEN em ELSE <<>>]
              /\ M = NewArray("M", sm)
       \/ \E sm \in {<<3, 3>>, <<2, 3>>, <<3, 2>>} :
              /\ mem = [b \in Buffers |->
                          IF b = "M" THEN Ramp(Prod(sm), 1) ELSE <<>>]
              /\ M = NewArray("M", sm)
    /\ lower = NoValue
    /\ upper = NoValue
    /\ d = NoValue
    /\ NoFactorization
    /\ A = NoValue
    /\ B = NoValue
    /\ C = NoValue
    /\ data = NewArray("data", <<1>>)
    /\ src = data
    /\ v = <<>>
    /\ err = NoError
    /\ op = "array"
    /\ arg = <<>>
    /\ writes = 0

NextExtract ==
    \/ Triangle
    \/ Diag

SpecExtract == InitExtract /\ [][NextExtract]_vars

\* ================================================================ claims
\* C1: a reshape whose target (samples, timesteps, features) has the size of
\* the source succeeds, gives the target shape, and reading the result in
\* row-major order yields the source's elements in the source's order.
ReshapePreservesOrder ==
    [][(op' = "reshape" /\ Prod(arg') = Prod(data.shape)) =>
         /\ err' = NoError
         /\ data'.shape = arg'
         /\ Flat(mem', data') = Flat(mem, data)
         /\ Flat(mem', data') = Flat(mem, src)]_vars

ReshapedExample1 ==
    /\ op = "reshape"
    /\ err = NoError
    /\ data.shape = <<1, 10, 1>>
    /\ Flat(mem, data) = Tenths

\* C2: a reshape whose target size differs from the source size raises the
\* shape error and leaves the array as it was (no truncation, padding or
\* repetition).
ReshapeMismatchFails ==
    [][(op' = "reshape" /\ Prod(arg') # Prod(data.shape)) =>
         /\ err' = ValueError
         /\ data' = data
         /\ mem' = mem]_vars

ReshapeRejected ==
    /\ op = "reshape"
    /\ err = ValueError
    /\ Prod(arg) < Prod(data.shape)

\* C3: reshaping an R x C array into (1, R, C) gives shape (1, R, C) with
\* element [0][r][c] equal to the source element [r][c].
Reshape2DKeepsRowsAndColumns ==
    [][(/\ op' = "reshape"
        /\ Len(data.shape) = 2
        /\ arg' = <<1, data.shape[1], data.shape[2]>>) =>
         /\ err' = NoError
         /\ data'.shape = <<1, data.shape[1], data.shape[2]>>
         /\ \A r \in 0..(data.shape[1] - 1), c \in 0..(data.shape[2] - 1) :
               At(mem', data', <<0, r, c>>) = At(mem, data, <<r, c>>)]_vars

ReshapedExample2 ==
    /\ op = "reshape"
    /\ err = NoError
    /\ src.shape = <<10, 2>>
    /\ data.shape = <<1, 10, 2>>
    /\ At(mem, data, <<0, 9, 1>>) = 1

\* C4 as stated: the elementwise operations fail, and return nothing,
\* whenever the two operand shapes differ.
ElementwiseOps == {"add", "subtract", "multiply", "divide"}

ElementwiseNeedsIdenticalShapes ==
    [][(op' \in ElementwiseOps /\ A.shape # B.shape) =>
         (err' = ValueError /\ C' = C /\ mem' = mem)]_vars

\* the extents of two shapes, counted from the last dimension, agree or one
\* of them is 1 (extents missing on the left impose nothing)
TrailingCompatible(sa, sb) ==
    \A k \in 1..(IF Len(sa) < Len(sb) THEN Len(sa) ELSE Len(sb)) :
        \/ sa[Len(sa) + 1 - k] = sb[Len(sb) + 1 - k]
        \/ sa[Len(sa) + 1 - k] = 1
        \/ sb[Len(sb) + 1 - k] = 1

\* C4 amended: the elementwise operations succeed exactly when the operand
\* shapes are broadcast-compatible; identical shapes give a result of that
\* shape; only incompatible shapes fail, and then no result is returned.
ElementwiseBroadcasts ==
    [][op' \in ElementwiseOps =>
         IF TrailingCompatible(A.shape, B.shape)
         THEN /\ err' = NoError
              /\ C'.kind = "array"
              /\ Prod(C'.shape) >= Prod(A.shape)
              /\ Prod(C'.shape) >= Prod(B.shape)
              /\ A.shape = B.shape => C'.shape = A.shape
              /\ (A.shape = B.shape /\ op' = "add") =>
                    \A k \in 1..Prod(A.shape) :
                        Flat(mem', C')[k] = RAdd(Flat(mem, A)[k], Flat(mem, B)[k])
         ELSE /\ err' = ValueError
              /\ C' = C
              /\ mem' = mem]_vars

BroadcastAddHappened ==
    /\ op = "add"
    /\ err = NoError
    /\ A.shape = <<2, 2>>
    /\ B.shape = <<1>>
    /\ C.shape = <<2, 2>>

\* C5: dot sums the products over the shared inner dimension (vector.vector
\* a scalar, matrix.matrix a matrix, matrix.vector a vector; [1,2,3].[4,5,6]
\* is 32) and fails, returning nothing, when the inner dimensions differ.
DotSumsInnerProducts ==
    [][op' = "dot" =>
         /\ (Len(A.shape) = 1 /\ Len(B.shape) = 1) =>
               IF A.shape[1] = B.shape[1]
               THEN /\ err' = NoError
                    /\ C' = Scalar(RSum([k \in 1..A.shape[1] |->
                             RMul(At(mem, A, <<k - 1>>), At(mem, B, <<k - 1>>))]))
                    /\ (Flat(mem, A) = <<Rat(1), Rat(2), Rat(3)>>
                           /\ Flat(mem, B) = <<Rat(4), Rat(5), Rat(6)>>)
                         => C'.val = Rat(32)
               ELSE err' = ValueError /\ C' = C /\ mem' = mem
         /\ (Len(A.shape) = 2 /\ Len(B.shape) = 2) =>
               IF A.shape[2] = B.shape[1]
               THEN /\ err' = NoError
                    /\ C'.kind = "array"
                    /\ C'.shape = <<A.shape[1], B.shape[2]>>
                    /\ \A i \in 0..(A.shape[1] - 1), j \in 0..(B.shape[2] - 1) :
                          At(mem', C', <<i, j>>) =
                             RSum([k \in 1..A.shape[2] |->
                                RMul(At(mem, A, <<i, k - 1>>), At(mem, B, <<k - 1, j>>))])
               ELSE err' = ValueError /\ C' = C /\ mem' = mem
         /\ (Len(A.shape) = 2 /\ Len(B.shape) = 1) =>
               IF A.shape[2] = B.shape[1]
               THEN /\ err' = NoError
                    /\ C'.kind = "array"
                    /\ C'.shape = <<A.shape[1]>>
                    /\ \A i \in 0..(A.shape[1] - 1) :
                          At(mem', C', <<i>>) =
                             RSum([k \in 1..A.shape[2] |->
                                RMul(At(mem, A, <<i, k - 1>>), At(mem, B, <<k - 1>>))])
               ELSE err' = ValueError /\ C' = C /\ mem' = mem
         /\ (Len(A.shape) = 1 /\ Len(B.shape) = 2 /\ A.shape[1] # B.shape[1]) =>
               (err' = ValueError /\ C' = C /\ mem' = mem)]_vars

DotExample3 ==
    /\ op = "dot"
    /\ err = NoError
    /\ Flat(mem, A) = <<Rat(1), Rat(2), Rat(3)>>
    /\ Flat(mem, B) = <<Rat(4), Rat(5), Rat(6)>>
    /\ C = Scalar(Rat(32))

\* C6: the transpose of an m x n matrix is n x m with element [j][i] equal to
\* the source's [i][j], and transposing it again gives the source back in
\* shape and in every element.
TransposeIsInvolution ==
    [][(op' = "transpose" /\ Len(A.shape) = 2) =>
         /\ err' = NoError
         /\ B'.shape = <<A.shape[2], A.shape[1]>>
         /\ \A i \in 0..(A.shape[1] - 1), j \in 0..(A.shape[2] - 1) :
               At(mem', B', <<j, i>>) = At(mem, A, <<i, j>>)
         /\ TransposeOf(B').shape = A.shape
         /\ Flat(mem', TransposeOf(B')) = Flat(mem, A)]_vars

TransposedNonSquare ==
    /\ op = "transpose"
    /\ A.shape = <<1, 2>>
    /\ B.shape = <<2, 1>>
    /\ At(mem, B, <<1, 0>>) = At(mem, A, <<0, 1>>)
    /\ At(mem, A, <<0, 0>>) # At(mem, A, <<0, 1>>)

\* C7: identity(n) is n x n with 1 on the diagonal and 0 elsewhere, and the
\* dot product of a matrix A of n columns with it equals A in shape and in
\* every element.
IsIdentityMatrix(m, X) ==
    /\ X.kind = "array"
    /\ IsSquare(X)
    /\ \A i \in 0..(X.shape[1] - 1), j \in 0..(X.shape[2] - 1) :
          At(m, X, <<i, j>>) = (IF i = j THEN Rat(1) ELSE Rat(0))

IdentityIsRightUnit ==
    [][/\ op' = "identity" =>
            (B'.shape = <<arg', arg'>> /\ IsIdentityMatrix(mem', B'))
       /\ (/\ op' = "dot"
           /\ Len(A.shape) = 2
           /\ IsIdentityMatrix(mem, B)
           /\ B.shape[1] = A.shape[2]) =>
            /\ err' = NoError
            /\ C'.kind = "array"
            /\ C'.shape = A.shape
            /\ \A k \in 1..Prod(A.shape) :
                  REq(Flat(mem', C')[k], Flat(mem, A)[k])]_vars

DotWithIdentity ==
    /\ op = "dot"
    /\ err = NoError
    /\ A.shape = <<1, 2>>
    /\ B.shape = <<2, 2>>
    /\ IsIdentityMatrix(mem, B)
    /\ Flat(mem, C) = <<Rat(0), Rat(1)>>

\* C8: inv of a square matrix with determinant 0 raises the singular-matrix
\* error and returns no matrix; of a square matrix with non-zero determinant
\* it returns B with dot(A, B) = dot(B, A) = identity(n).
MatMulElem(m, X, Y, i, j) ==
    RSum([k \in 1..X.shape[2] |->
            RMul(At(m, X, <<i, k - 1>>), At(m, Y, <<k - 1, j>>))])

RECURSIVE IntSum(_)
IntSum(xs) == IF xs = <<>> THEN 0 ELSE Head(xs)[1] + IntSum(Tail(xs))

RECURSIVE IntSumSq(_)
IntSumSq(xs) ==
    IF xs = <<>> THEN 0 ELSE Head(xs)[1] * Head(xs)[1] + IntSumSq(Tail(xs))

\* N times the sum of squared deviations of integer values from their mean
NTimesSumSqDev(xs) == Len(xs) * IntSumSq(xs) - IntSum(xs) * IntSum(xs)

SampleStatistics ==
    [][/\ (op' = "var" /\ Len(v) >= 2) =>
            /\ err' = NoError
            /\ C'.kind = "scalar"
            /\ RMul(C'.val, Rat(Len(v) * (Len(v) - 1))) = Rat(NTimesSumSqDev(v))
            /\ v = <<Rat(1), Rat(2), Rat(3), Rat(4)>> => C'.val = <<5, 3>>
       /\ (op' = "std" /\ Len(v) >= 2) =>
            /\ err' = NoError
            /\ C'.kind = "sqrt"
            /\ RMul(C'.of, Rat(Len(v) * (Len(v) - 1))) = Rat(NTimesSumSqDev(v))
            /\ C'.of = Variance(v, Ddof)]_vars

VarianceExample4 ==
    /\ op = "var"
    /\ v = <<Rat(1), Rat(2), Rat(3), Rat(4)>>
    /\ C = Scalar(<<5, 3>>)

NonSquareIsRejected ==
    [][/\ (op' \in {"det", "eig"} /\ Len(A.shape) = 2 /\ A.shape[1] # A.shape[2]) =>
            /\ err' = LinAlgNotSquare
            /\ B' = B
            /\ values' = values
            /\ vectors' = vectors
            /\ mem' = mem
       /\ (op' = "eig" /\ Len(A.shape) = 2 /\ A.shape[1] = A.shape[2]) =>
            /\ err' = NoError
            /\ values'.kind = "array"
            /\ vectors'.kind = "array"
            /\ values'.buf # vectors'.buf
            /\ values'.shape = <<A.shape[1]>>
            /\ vectors'.shape = <<A.shape[1], A.shape[1]>>
            /\ Len(mem'[values'.buf]) = A.shape[1]
            /\ Len(mem'[vectors'.buf]) = A.shape[1] * A.shape[1]
            /\ \A k \in 1..A.shape[1] : mem'[values'.buf][k].kind = "root"]_vars

EigOfWideRejected ==
    /\ op = "eig"
    /\ err = LinAlgNotSquare
    /\ A.shape = <<2, 3>>
    /\ values = NoValue
    /\ vectors = NoValue

\* C12 as stated: trace of an n x n matrix is the sum of A[i][i] for i in
\* 0..n-1, and trace of a non-square matrix fails and returns no value.
TraceOnlyOfSquare ==
    [][(op' = "trace" /\ Len(A.shape) = 2) =>
         IF A.shape[1] = A.shape[2]
         THEN /\ err' = NoError
              /\ B' = Scalar(RSum([i \in 1..A.shape[1] |->
                                     At(mem, A, <<i - 1, i - 1>>)]))
         ELSE /\ err' # NoError
              /\ B' = B]_vars

\* C12 amended: trace of an n x n matrix is the sum of A[i][i] for i in
\* 0..n-1; trace of a non-square m x n matrix returns a value too, the sum of
\* A[i][i] for i in 0..min(m,n)-1 ([[1,2,3],[4,5,6]] gives 6); it fails,
\* returning no value, only for an array of fewer than two dimensions.
TraceSumsMainDiagonal ==
    [][op' = "trace" =>
         IF Len(A.shape) = 2
         THEN /\ err' = NoError
              /\ B' = Scalar(RSum(
                     [i \in 1..(IF A.shape[1] < A.shape[2]
                                THEN A.shape[1] ELSE A.shape[2]) |->
                         At(mem, A, <<i - 1, i - 1>>)]))
              /\ (A.shape = <<2, 3>> /\ Flat(mem, A) = Ramp(6, 1)) =>
                    B'.val = Rat(6)
              /\ A.shape[1] = A.shape[2] =>
                    B'.val = RSum([i \in 1..A.shape[1] |->
                                     At(mem, A, <<i - 1, i - 1>>)])
         ELSE /\ err' = ValueError
              /\ B' = B]_vars

PartialDiagonalSummed ==
    /\ op = "trace"
    /\ err = NoError
    /\ A = Wide
    /\ Flat(mem, A) = Ramp(6, 1)
    /\ B = Scalar(Rat(6))

\* C13: for every matrix M, tril(M) keeps M[i][j] where j <= i and is 0
\* elsewhere, triu(M) keeps M[i][j] where j >= i and is 0 elsewhere, both
\* have M's shape, diag(M) is the vector of the M[i][i], and at every
\* position lower + upper is M[i][j] off the diagonal and 2 * M[i][i] on it.
TrianglesPartition ==
    [][/\ (op' = "triangle" /\ Len(M.shape) = 2) =>
            /\ err' = NoError
            /\ lower'.shape = M.shape
            /\ upper'.shape = M.shape
            /\ lower'.buf # upper'.buf
            /\ \A i \in 0..(M.shape[1] - 1), j \in 0..(M.shape[2] - 1) :
                  /\ At(mem', lower', <<i, j>>) =
                        (IF j <= i THEN At(mem, M, <<i, j>>) ELSE Rat(0))
                  /\ At(mem', upper', <<i, j>>) =
                        (IF j >= i THEN At(mem, M, <<i, j>>) ELSE Rat(0))
                  /\ RAdd(At(mem', lower', <<i, j>>), At(mem', upper', <<i, j>>)) =
                        (IF i = j THEN RMul(Rat(2), At(mem, M, <<i, j>>))
                         ELSE At(mem, M, <<i, j>>))
       /\ (op' = "diag" /\ Len(M.shape) = 2) =>
            /\ err' = NoError
            /\ d'.kind = "array"
            /\ Len(d'.shape) = 1
            /\ d'.shape[1] = (IF M.shape[1] < M.shape[2]
                              THEN M.shape[1] ELSE M.shape[2])
            /\ \A i \in 0..(d'.shape[1] - 1) :
                  At(mem', d', <<i>>) = At(mem, M, <<i, i>>)
       /\ op' \in {"triangle", "diag"} =>
            (M' = M /\ Flat(mem', M') = Flat(mem, M))]_vars

TrianglesOfExample ==
    /\ op = "triangle"
    /\ err = NoError
    /\ M.shape = <<3, 3>>
    /\ Flat(mem, M) = Ramp(9, 1)
    /\ lower.shape = <<3, 3>>
    /\ Flat(mem, lower) = [k \in 1..9 |-> Rat(<<1, 0, 0, 4, 5, 0, 7, 8, 9>>[k])]
    /\ Flat(mem, upper) = [k \in 1..9 |-> Rat(<<1, 2, 3, 0, 5, 6, 0, 0, 9>>[k])]

====
